---- MODULE Spec2Model ----
(***************************************************************************)
(* Model of the cross-chain bridge event listener of src/script.py:        *)
(* StateDB (the persisted deduplication ledger), RelayerService (the       *)
(* dispatch), EventProcessor.process_event and the polling loop of         *)
(* EventListener.start, driven by main().                                  *)
(*                                                                         *)
(* The chain node, the HTTP destination, the file system and the operator  *)
(* (start, Ctrl-C, restart) are the environment: their answers are drawn   *)
(* with \E from small sets.                                                *)
(***************************************************************************)
EXTENDS Integers, Sequences, FiniteSets, TLC

VARIABLES
    pc,                \* "init" | "poll" | "batch" | "stopped": where main() stands
    run,               \* number of times main() has been started
    clock,             \* time.time(), advanced by the sleeps of the loop
    current_block,     \* EventListener.current_block (the scan cursor)
    latest_block,      \* <<>> or <<H>>: what get_latest_block_number returned this cycle
    target_block,      \* latest_block - reorg_confirmation_depth of this cycle
    events,            \* the entries get_all_entries returned for this cycle
    idx,               \* position in events of the next process_event call
    processed_events,  \* StateDB.processed_events (in memory)
    disk,              \* the state file: [kind, doc]
    fetch,             \* <<>> or <<fromBlock, toBlock>>: the filter created this cycle
    outcome,           \* how the last step of the loop ended
    lastRelay,         \* <<>> or <<response, result>> of the last relay_transaction
    procCalls,         \* per signature: process_event calls in this run
    relayCalls,        \* per signature: relay_transaction calls in this run
    relayOks,          \* per signature: relay_transaction calls that returned True
    markCalls,         \* per signature: mark_event_as_processed calls in this run
    firstRelay,        \* per signature: result of the first relay_transaction of the run
    delivered,         \* signatures whose relay_transaction returned True, in any run
    deliveredBefore,   \* delivered, as it was when this run started
    loadResult,        \* which branch of _load_state this run took
    batchBase,         \* DOMAIN processed_events when this cycle's batch was fetched
    batchOk,           \* signatures whose relay returned True in this cycle's batch
    retryFrom,         \* <<>> or <<c>>: the cursor when a cycle last failed before its batch
    failCycle,         \* per signature: the cycle (clock) of its first failed dispatch, 0: none
    start_block,       \* the start_block main() gave the listener
    covered            \* the blocks of the ranges whose cycle reached line 344

vars == <<pc, run, clock, current_block, latest_block, target_block, events, idx,
          processed_events, disk, fetch, outcome, lastRelay, procCalls, relayCalls,
          relayOks, markCalls, firstRelay, delivered, deliveredBefore, loadResult,
          batchBase, batchOk, retryFrom, failCycle, start_block, covered>>

---------------------------------------------------------------------------
(* Bounds of the model *)

MinHeight == 5      \* chain heights the node reports: MinHeight..MaxHeight
MaxHeight == 8
MaxStart == 1       \* explicit START_BLOCK values: 0..MaxStart
MaxClock == 2       \* poll cycles over all runs
MaxRuns == 2        \* starts of main()

(* Program constants *)

reorg_confirmation_depth == 5

Heights == MinHeight..MaxHeight

---------------------------------------------------------------------------
(* The source chain: the TokensLocked logs the node serves, in chain order. *)
(* One log is served twice by the node; two logs share a transaction hash  *)
(* (positions 0 and 1); one log is malformed (its args lack fields).       *)

Args(s, r, a, d) == [sender |-> s, recipient |-> r, amount |-> a, destinationChainId |-> d]

ChainLog ==
    << [transactionHash |-> <<171>>, logIndex |-> 0, blockNumber |-> 1,
        args |-> Args("0xA1", "0xB1", 10, 2)],
       [transactionHash |-> <<171>>, logIndex |-> 0, blockNumber |-> 1,
        args |-> Args("0xA1", "0xB1", 10, 2)],
       [transactionHash |-> <<171>>, logIndex |-> 1, blockNumber |-> 2,
        args |-> Args("0xA1", "0xB2", 20, 3)],
       [transactionHash |-> <<18>>, logIndex |-> 0, blockNumber |-> 3,
        args |-> [sender |-> "0xA3", recipient |-> "0xB3"]] >>

GetAllEntries_IgnoreFrom(from, to) ==
    SelectSeq(ChainLog, LAMBDA e : e.blockNumber <= to)

(* create_filter(fromBlock, toBlock).get_all_entries(): the logs of the range *)
GetAllEntries(from, to) ==
    SelectSeq(ChainLog, LAMBDA e : e.blockNumber >= from /\ e.blockNumber <= to)

---------------------------------------------------------------------------
(* Event signature: f"{tx_hash}-{log_index}" with tx_hash = HexBytes.hex() *)

HexDigits == <<"0", "1", "2", "3", "4", "5", "6", "7",
               "8", "9", "a", "b", "c", "d", "e", "f">>

RECURSIVE Hex(_)
Hex(bytes) ==
    IF bytes = <<>> THEN ""
    ELSE HexDigits[(Head(bytes) \div 16) + 1] \o HexDigits[(Head(bytes) % 16) + 1]
         \o Hex(Tail(bytes))

EventSignature(event) == Hex(event.transactionHash) \o "-" \o ToString(event.logIndex)

Sigs == {EventSignature(ChainLog[i]) : i \in 1..Len(ChainLog)}

(* processed_data of process_event; KeyError when a field is missing *)
ArgFields == {"sender", "recipient", "amount", "destinationChainId"}

WellFormed(event) == ArgFields \subseteq DOMAIN event.args

ProcessedData(event) ==
    [source_transaction_hash |-> Hex(event.transactionHash),
     sender |-> event.args.sender,
     recipient |-> event.args.recipient,
     amount |-> event.args.amount,
     destination_chain_id |-> event.args.destinationChainId]

---------------------------------------------------------------------------
(* StateDB *)

EmptyDict == [k \in {} |-> {}]

DictSet_Overwrite(d, k, v) == [x \in {k} |-> v]

DictSet(d, k, v) == [x \in (DOMAIN d) \cup {k} |-> IF x = k THEN v ELSE d[x]]

Absent == [kind |-> "absent", doc |-> {}]
Corrupt == [kind |-> "corrupt", doc |-> {}]

(* json.dump(processed_events): the document's members, key and value *)
JsonDump(d) == {<<k, d[k]>> : k \in DOMAIN d}

(* json.load: the dict of the document's members *)
JsonLoad(doc) == [k \in {m[1] : m \in doc} |-> (CHOOSE m \in doc : m[1] = k)[2]]

(* _load_state: FileNotFoundError and JSONDecodeError both give {} *)
LoadState(file) ==
    IF file.kind = "absent" THEN EmptyDict
    ELSE IF file.kind = "corrupt" THEN EmptyDict
    ELSE JsonLoad(file.doc)

LoadBranch(file) ==
    IF file.kind = "absent" THEN "absent"
    ELSE IF file.kind = "corrupt" THEN "corrupt"
    ELSE "loaded"

(* _save_state: open(path, 'w') truncates the file, json.dump writes it; an   *)
(* IOError is logged and swallowed. "open_error": open fails, the file is as *)
(* it was. "write_error": the write fails after the truncation.              *)
SaveOutcomes == {"ok", "open_error", "write_error"}

SaveState_NoWrite(d, file, io) == file

SaveState(d, file, io) ==
    IF io = "ok" THEN [kind |-> "json", doc |-> JsonDump(d)]
    ELSE IF io = "open_error" THEN file
    ELSE Corrupt

IsEventProcessed_Never(d, sig) == FALSE

IsEventProcessed(d, sig) == sig \in DOMAIN d

MarkInsert_Noop(d, sig, data, now) == d

(* mark_event_as_processed: the insert, then _save_state *)
MarkInsert(d, sig, data, now) == DictSet(d, sig, [data |-> data, processed_at |-> now])

---------------------------------------------------------------------------
(* RelayerService.relay_transaction *)

(* What requests.post meets: a transport error (connection, timeout), or a *)
(* response with a status and a body that is JSON or not.                  *)
Responses ==
    { [transport |-> FALSE, status |-> 200, json |-> TRUE],
      [transport |-> FALSE, status |-> 204, json |-> FALSE],
      [transport |-> FALSE, status |-> 300, json |-> TRUE],
      [transport |-> FALSE, status |-> 500, json |-> TRUE],
      [transport |-> TRUE, status |-> 0, json |-> FALSE] }

(* response.raise_for_status(): HTTPError for 4xx and 5xx *)
RaisesForStatus(status) == status >= 400 /\ status < 600

(* The results relay_transaction can end with: "True", "False", or "raise"  *)
(* (an exception that is no RequestException leaves the method).            *)
(* response.json() in the success log line raises on a body that is not     *)
(* JSON: requests >= 2.27 raises requests.exceptions.JSONDecodeError, a     *)
(* RequestException (caught: False); older versions raise a plain           *)
(* ValueError (not caught).                                                 *)
RelayResults(resp) ==
    IF resp.transport THEN {"False"}
    ELSE IF RaisesForStatus(resp.status) THEN {"False"}
    ELSE IF resp.json THEN {"True"}
    ELSE {"False", "raise"}

---------------------------------------------------------------------------
(* EventListener *)

TargetBlock_NoDepth(latest) == latest

(* "target_block = latest_block - self.reorg_confirmation_depth" of line 321 *)
TargetBlock(latest) == latest - reorg_confirmation_depth

MustWait_Never(cur, target) == FALSE

MustWait_Always(cur, target) == TRUE

(* "if self.current_block > target_block:" of line 323 *)
MustWait(cur, target) == cur > target

NextCursor_NoStep(target) == target

NextCursor_SkipOne(target) == target + 2

(* "self.current_block = target_block + 1" of line 344 *)
NextCursor(target) == target + 1

AfterException_Exit == "stopped"

(* Where the loop stands after its "except Exception" handler (lines 346-351): *)
(* the exception is logged, the loop sleeps and goes to the top of while True.  *)
AfterException == "poll"

CursorAfterError_Advance(cur, target) == target + 1

(* The cursor after a cycle ended by an exception: line 344 was not reached and *)
(* the handler of lines 346-349 does not assign current_block.                  *)
CursorAfterError(cur, target) == cur

ZeroCount == [s \in Sigs |-> 0]
NoFirst == [s \in Sigs |-> "none"]

Init ==
    /\ pc = "init"
    /\ run = 0
    /\ clock = 0
    /\ current_block = 0
    /\ latest_block = <<>>
    /\ target_block = 0
    /\ events = <<>>
    /\ idx = 1
    /\ processed_events = EmptyDict
    /\ disk \in {Absent, Corrupt}
    /\ fetch = <<>>
    /\ outcome = "none"
    /\ lastRelay = <<>>
    /\ procCalls = ZeroCount
    /\ relayCalls = ZeroCount
    /\ relayOks = ZeroCount
    /\ markCalls = ZeroCount
    /\ firstRelay = NoFirst
    /\ delivered = {}
    /\ deliveredBefore = {}
    /\ loadResult = "none"
    /\ batchBase = {}
    /\ batchOk = {}
    /\ retryFrom = <<>>
    /\ failCycle = ZeroCount
    /\ start_block = 0
    /\ covered = {}

(* main(): StateDB(STATE_FILE), connect, get_contract, START_BLOCK, listener *)
Startup(connected, start) ==
    /\ pc \in {"init", "stopped"}
    /\ run < MaxRuns
    /\ run' = run + 1
    /\ processed_events' = IF connected THEN LoadState(disk) ELSE EmptyDict
    /\ loadResult' = LoadBranch(disk)
    /\ pc' = IF connected THEN "poll" ELSE "stopped"
    /\ current_block' = IF connected THEN start ELSE 0
    /\ latest_block' = <<>>
    /\ events' = <<>>
    /\ idx' = 1
    /\ fetch' = <<>>
    /\ outcome' = IF connected THEN "started" ELSE "exit"
    /\ lastRelay' = <<>>
    /\ procCalls' = ZeroCount
    /\ relayCalls' = ZeroCount
    /\ relayOks' = ZeroCount
    /\ markCalls' = ZeroCount
    /\ firstRelay' = NoFirst
    /\ deliveredBefore' = delivered
    /\ batchBase' = {}
    /\ batchOk' = {}
    /\ target_block' = 0
    /\ retryFrom' = <<>>
    /\ failCycle' = ZeroCount
    /\ start_block' = IF connected THEN start ELSE 0
    /\ covered' = {}
    /\ UNCHANGED <<clock, disk, delivered>>

ghosts == <<procCalls, relayCalls, relayOks, markCalls, firstRelay, delivered,
            deliveredBefore, loadResult>>

(* One pass of the loop up to the fetch: lines 314-334 *)
PollNoHeight ==
    /\ pc = "poll"
    /\ clock < MaxClock
    /\ clock' = clock + 1
    /\ latest_block' = <<>>
    /\ fetch' = <<>>
    /\ outcome' = "no_height"
    /\ lastRelay' = <<>>
    /\ retryFrom' = <<current_block>>
    /\ UNCHANGED <<pc, run, current_block, target_block, events, idx,
                   processed_events, disk, batchBase, batchOk>>
    /\ UNCHANGED <<ghosts, failCycle, start_block, covered>>

PollWait(h) ==
    /\ pc = "poll"
    /\ clock < MaxClock
    /\ MustWait(current_block, TargetBlock(h))
    /\ clock' = clock + 1
    /\ latest_block' = <<h>>
    /\ target_block' = TargetBlock(h)
    /\ fetch' = <<>>
    /\ outcome' = "waiting"
    /\ lastRelay' = <<>>
    /\ UNCHANGED <<pc, run, current_block, events, idx, processed_events, disk,
                   batchBase, batchOk>>
    /\ UNCHANGED <<ghosts, retryFrom, failCycle, start_block, covered>>

PollFetch(h, fetched) ==
    /\ pc = "poll"
    /\ clock < MaxClock
    /\ ~MustWait(current_block, TargetBlock(h))
    /\ clock' = clock + 1
    /\ latest_block' = <<h>>
    /\ target_block' = TargetBlock(h)
    /\ fetch' = <<current_block, TargetBlock(h)>>
    /\ lastRelay' = <<>>
    /\ IF fetched
       THEN /\ events' = GetAllEntries(current_block, TargetBlock(h))
            /\ idx' = 1
            /\ pc' = "batch"
            /\ outcome' = "fetched"
            /\ batchBase' = DOMAIN processed_events
            /\ batchOk' = {}
            /\ UNCHANGED <<current_block, retryFrom>>
       ELSE /\ outcome' = "error"
            /\ pc' = AfterException
            /\ current_block' = CursorAfterError(current_block, TargetBlock(h))
            /\ retryFrom' = <<current_block>>
            /\ UNCHANGED <<events, idx, batchBase, batchOk>>
    /\ UNCHANGED <<run, processed_events, disk>>
    /\ UNCHANGED <<ghosts, failCycle, start_block, covered>>

(* process_event on events[idx], the entry is already in the ledger: lines 268-274 *)
ProcessSkip ==
    /\ pc = "batch"
    /\ idx <= Len(events)
    /\ LET sig == EventSignature(events[idx]) IN
        /\ IsEventProcessed(processed_events, sig)
        /\ procCalls' = [procCalls EXCEPT ![sig] = @ + 1]
    /\ idx' = idx + 1
    /\ outcome' = "skipped"
    /\ lastRelay' = <<>>
    /\ UNCHANGED <<pc, run, clock, current_block, latest_block, target_block, events,
                   processed_events, disk, fetch, batchBase, batchOk>>
    /\ UNCHANGED <<relayCalls, relayOks, markCalls, firstRelay, delivered,
                   deliveredBefore, loadResult, retryFrom, failCycle, start_block,
                   covered>>

(* process_event on a new entry whose args lack a field: KeyError at lines 280-286, *)
(* caught by the loop's except Exception (lines 346-349); line 344 is not reached. *)
ProcessMalformed ==
    /\ pc = "batch"
    /\ idx <= Len(events)
    /\ LET sig == EventSignature(events[idx]) IN
        /\ ~IsEventProcessed(processed_events, sig)
        /\ ~WellFormed(events[idx])
        /\ procCalls' = [procCalls EXCEPT ![sig] = @ + 1]
    /\ pc' = AfterException
    /\ current_block' = CursorAfterError(current_block, target_block)
    /\ outcome' = "error"
    /\ lastRelay' = <<>>
    /\ UNCHANGED <<run, clock, latest_block, target_block, events, idx,
                   processed_events, disk, fetch, batchBase, batchOk>>
    /\ UNCHANGED <<relayCalls, relayOks, markCalls, firstRelay, delivered,
                   deliveredBefore, loadResult, retryFrom, failCycle, start_block,
                   covered>>

Relayed_Always(res) == TRUE

(* "if self.relayer.relay_transaction(processed_data):" of line 289 *)
Relayed(res) == res = "True"

(* process_event on a new, well-formed entry: lines 276-293. resp is what the  *)
(* destination answers, res the result of relay_transaction, io what the file *)
(* system does to _save_state.                                                 *)
ProcessRelay(resp, res, io) ==
    /\ pc = "batch"
    /\ idx <= Len(events)
    /\ res \in RelayResults(resp)
    /\ io \in SaveOutcomes
    /\ LET event == events[idx]
           sig == EventSignature(event)
       IN
        /\ ~IsEventProcessed(processed_events, sig)
        /\ WellFormed(event)
        /\ procCalls' = [procCalls EXCEPT ![sig] = @ + 1]
        /\ relayCalls' = [relayCalls EXCEPT ![sig] = @ + 1]
        /\ relayOks' = [relayOks EXCEPT ![sig] = IF res = "True" THEN @ + 1 ELSE @]
        /\ firstRelay' = [firstRelay EXCEPT ![sig] = IF @ = "none" THEN res ELSE @]
        /\ failCycle' = [failCycle EXCEPT
                             ![sig] = IF res = "False" /\ @ = 0 THEN clock ELSE @]
        /\ delivered' = IF res = "True" THEN delivered \cup {sig} ELSE delivered
        /\ batchOk' = IF res = "True" THEN batchOk \cup {sig} ELSE batchOk
        /\ lastRelay' = <<resp, res>>
        /\ IF res = "raise"
           THEN /\ io = "ok"
                /\ pc' = AfterException
                /\ current_block' = CursorAfterError(current_block, target_block)
                /\ outcome' = "error"
                /\ UNCHANGED <<idx, processed_events, disk, markCalls>>
           ELSE IF Relayed(res)
           THEN /\ processed_events' =
                       MarkInsert(processed_events, sig, ProcessedData(event), clock)
                /\ disk' = SaveState(processed_events', disk, io)
                /\ markCalls' = [markCalls EXCEPT ![sig] = @ + 1]
                /\ idx' = idx + 1
                /\ outcome' = IF io = "ok" THEN "committed" ELSE "save_failed"
                /\ UNCHANGED <<pc, current_block>>
           ELSE /\ io = "ok"
                /\ idx' = idx + 1
                /\ outcome' = "relay_failed"
                /\ UNCHANGED <<pc, current_block, processed_events, disk, markCalls>>
    /\ UNCHANGED <<run, clock, latest_block, target_block, events,
                   fetch, batchBase, deliveredBefore, loadResult, retryFrom,
                   start_block, covered>>

(* The batch is done: "self.current_block = target_block + 1" of line 344 *)
AdvanceCursor ==
    /\ pc = "batch"
    /\ idx > Len(events)
    /\ current_block' = NextCursor(target_block)
    /\ pc' = "poll"
    /\ outcome' = "scanned"
    /\ lastRelay' = <<>>
    /\ UNCHANGED <<run, clock, latest_block, target_block, events, idx,
                   processed_events, disk, fetch, batchBase, batchOk>>
    /\ retryFrom' = <<>>
    /\ covered' = covered \cup (fetch[1]..fetch[2])
    /\ UNCHANGED <<ghosts, failCycle, start_block>>

(* KeyboardInterrupt: not an Exception, so the loop's handler lets it through; *)
(* main() logs the shutdown and returns (lines 410-413). The process is gone,   *)
(* and with it everything it held in memory; the state file stays.              *)
Interrupt ==
    /\ pc \in {"poll", "batch"}
    /\ pc' = "stopped"
    /\ outcome' = IF pc = "batch" THEN "interrupted_in_cycle" ELSE "interrupted"
    /\ current_block' = 0
    /\ latest_block' = <<>>
    /\ target_block' = 0
    /\ events' = <<>>
    /\ idx' = 1
    /\ processed_events' = EmptyDict
    /\ fetch' = <<>>
    /\ lastRelay' = <<>>
    /\ batchBase' = {}
    /\ batchOk' = {}
    /\ procCalls' = ZeroCount
    /\ relayCalls' = ZeroCount
    /\ relayOks' = ZeroCount
    /\ markCalls' = ZeroCount
    /\ firstRelay' = NoFirst
    /\ retryFrom' = <<>>
    /\ failCycle' = ZeroCount
    /\ start_block' = 0
    /\ covered' = {}
    /\ UNCHANGED <<run, clock, disk, delivered, deliveredBefore, loadResult>>

Next ==
    \/ \E c \in BOOLEAN, s \in (0..MaxStart) \cup Heights : Startup(c, s)
    \/ PollNoHeight
    \/ \E h \in Heights : PollWait(h)
    \/ \E h \in Heights, f \in BOOLEAN : PollFetch(h, f)
    \/ ProcessSkip
    \/ ProcessMalformed
    \/ \E resp \in Responses, res \in {"True", "False", "raise"}, io \in SaveOutcomes :
          ProcessRelay(resp, res, io)
    \/ AdvanceCursor
    \/ Interrupt

Spec == Init /\ [][Next]_vars

---------------------------------------------------------------------------
(* The loop running for ever: "while True" of line 312, no shutdown signal. *)
(* The poll steps are those of lines 314-334 again, with a clock that stops *)
(* counting at MaxClock instead of stopping the loop. The environment is    *)
(* one in which event processing does not raise: the node reports heights   *)
(* whose confirmed range holds no malformed log, and relay_transaction      *)
(* returns. The height query and the log fetch can still fail.              *)

LiveHeights ==
    {h \in Heights :
        \A i \in 1..Len(ChainLog) :
            ~WellFormed(ChainLog[i]) => ChainLog[i].blockNumber > TargetBlock(h)}

LiveTick == IF clock < MaxClock THEN clock + 1 ELSE clock

LiveNoHeight ==
    /\ pc = "poll"
    /\ clock' = LiveTick
    /\ latest_block' = <<>>
    /\ fetch' = <<>>
    /\ outcome' = "no_height"
    /\ lastRelay' = <<>>
    /\ retryFrom' = <<current_block>>
    /\ UNCHANGED <<pc, run, current_block, target_block, events, idx,
                   processed_events, disk, batchBase, batchOk>>
    /\ UNCHANGED <<ghosts, failCycle, start_block, covered>>

LiveWait(h) ==
    /\ pc = "poll"
    /\ MustWait(current_block, TargetBlock(h))
    /\ clock' = LiveTick
    /\ latest_block' = <<h>>
    /\ target_block' = TargetBlock(h)
    /\ fetch' = <<>>
    /\ outcome' = "waiting"
    /\ lastRelay' = <<>>
    /\ UNCHANGED <<pc, run, current_block, events, idx, processed_events, disk,
                   batchBase, batchOk>>
    /\ UNCHANGED <<ghosts, retryFrom, failCycle, start_block, covered>>

LiveFetch(h, fetched) ==
    /\ pc = "poll"
    /\ ~MustWait(current_block, TargetBlock(h))
    /\ clock' = LiveTick
    /\ latest_block' = <<h>>
    /\ target_block' = TargetBlock(h)
    /\ fetch' = <<current_block, TargetBlock(h)>>
    /\ lastRelay' = <<>>
    /\ IF fetched
       THEN /\ events' = GetAllEntries(current_block, TargetBlock(h))
            /\ idx' = 1
            /\ pc' = "batch"
            /\ outcome' = "fetched"
            /\ batchBase' = DOMAIN processed_events
            /\ batchOk' = {}
            /\ UNCHANGED <<current_block, retryFrom>>
       ELSE /\ outcome' = "error"
            /\ pc' = AfterException
            /\ current_block' = CursorAfterError(current_block, TargetBlock(h))
            /\ retryFrom' = <<current_block>>
            /\ UNCHANGED <<events, idx, batchBase, batchOk>>
    /\ UNCHANGED <<run, processed_events, disk>>
    /\ UNCHANGED <<ghosts, failCycle, start_block, covered>>

LiveNext ==
    \/ \E c \in BOOLEAN, s \in (0..MaxStart) \cup Heights : Startup(c, s)
    \/ LiveNoHeight
    \/ \E h \in LiveHeights : LiveWait(h)
    \/ \E h \in LiveHeights, f \in BOOLEAN : LiveFetch(h, f)
    \/ ProcessSkip
    \/ \E resp \in Responses, res \in {"True", "False"}, io \in SaveOutcomes :
          ProcessRelay(resp, res, io)
    \/ AdvanceCursor

(* The loop never blocks for ever: every call it makes returns or raises,   *)
(* and every sleep ends, so a step of the loop that can be taken is taken.  *)
LiveSpec == Init /\ [][LiveNext]_vars /\ WF_vars(LiveNext)

---------------------------------------------------------------------------
(* Properties *)

Running == pc \in {"poll", "batch"}

(* C1. Window safety: a range requested from the chain client has its upper *)
(* bound at most H - D, H the height this cycle observed and D the          *)
(* confirmation depth, and is requested only when the cursor (its lower     *)
(* bound) does not exceed H - D.                                            *)
WindowSafety ==
    fetch # <<>> =>
        /\ latest_block # <<>>
        /\ fetch[2] <= latest_block[1] - reorg_confirmation_depth
        /\ fetch[1] <= latest_block[1] - reorg_confirmation_depth

WindowSafetyWitness ==
    /\ pc = "batch"
    /\ latest_block = <<MaxHeight>>
    /\ fetch = <<0, MaxHeight - reorg_confirmation_depth>>

(* C2. Monotonic cursor: no step of the polling loop, whatever the cycle's  *)
(* outcome and whatever height is observed, decreases current_block.        *)
MonotonicCursor ==
    [][(Running /\ Running') => current_block' >= current_block]_vars

(* The cursor has advanced past its start and a lower height makes it wait. *)
MonotonicCursorWitness ==
    /\ outcome = "waiting"
    /\ current_block > MaxStart
    /\ current_block <= MaxHeight - reorg_confirmation_depth
    /\ latest_block[1] - reorg_confirmation_depth < current_block - 1

MemoryEqualsPersisted ==
    Running => processed_events = LoadState(disk)

(* C5. Ledger durability: every signature mark_event_as_processed was       *)
(* called for in this run is in the ledger a restart would load, with the   *)
(* payload that was committed.                                              *)
LedgerDurability ==
    Running =>
        \A s \in Sigs :
            markCalls[s] >= 1 =>
                /\ s \in DOMAIN LoadState(disk)
                /\ LoadState(disk)[s].data = processed_events[s].data

(* C6. Batch partial failure: at every point of the batch loop the          *)
(* signatures committed since the fetch are exactly those whose dispatch    *)
(* returned True; a dispatch that returns False writes nothing to the       *)
(* ledger or the file and the loop goes on to the next entry.               *)
BatchPartialFailure ==
    /\ [](pc = "batch" => (DOMAIN processed_events) \ batchBase = batchOk)
    /\ [][(lastRelay' # <<>> /\ lastRelay'[2] = "False") =>
             /\ processed_events' = processed_events
             /\ disk' = disk
             /\ pc' = "batch"
             /\ idx' = idx + 1]_vars

(* The batch loop is over: one dispatch returned True, another False. *)
BatchPartialFailureWitness ==
    /\ pc = "batch"
    /\ idx > Len(events)
    /\ batchOk # {}
    /\ \E s \in Sigs : firstRelay[s] = "False" /\ s \notin DOMAIN processed_events

(* C7. Ledger/delivery equivalence: while the process runs, also after a    *)
(* restart, a signature is in the ledger exactly when some dispatch for it  *)
(* has returned True.                                                       *)
LedgerIffDelivered ==
    Running => \A s \in Sigs : (s \in DOMAIN processed_events) <=> (s \in delivered)

(* C8. Skip of committed events: a process_event call on an entry whose     *)
(* signature is in the ledger makes no dispatch call and leaves the ledger  *)
(* and the state file as they were.                                         *)
SkipCommitted ==
    [][(/\ pc = "batch"
        /\ idx <= Len(events)
        /\ EventSignature(events[idx]) \in DOMAIN processed_events
        /\ Running') =>
            /\ relayCalls' = relayCalls
            /\ lastRelay' = <<>>
            /\ processed_events' = processed_events
            /\ disk' = disk]_vars

(* An entry loaded at startup has been skipped. *)
SkipCommittedWitness ==
    /\ outcome = "skipped"
    /\ loadResult = "loaded"
    /\ \A s \in Sigs : markCalls[s] = 0

(* C9. Dispatch classification: relay_transaction returns True exactly when *)
(* the destination answered with a 2xx status.                              *)
DispatchClassification ==
    lastRelay # <<>> =>
        ((lastRelay[2] = "True") <=>
            (/\ ~lastRelay[1].transport
             /\ lastRelay[1].status >= 200
             /\ lastRelay[1].status < 300))

(* C10. Corrupt persisted ledger: a run that found the state file           *)
(* unparsable does not go on into the polling loop, and dispatches nothing  *)
(* that was delivered before it started.                                    *)
CorruptLedgerNotSilent ==
    loadResult = "corrupt" =>
        /\ ~Running
        /\ \A s \in deliveredBefore : relayCalls[s] = 0

(* C11. Cold start: a run that found no state file starts with an empty     *)
(* ledger and goes on into the loop; until its first commit nothing is in   *)
(* the ledger and there is no file; when its first commit is written, the   *)
(* file holds exactly that one record.                                      *)
MarkedSigs == {s \in Sigs : markCalls[s] >= 1}

LoopSurvival ==
    /\ [][(Running /\ ~Running') =>
             outcome' \in {"interrupted", "interrupted_in_cycle"}]_vars
    /\ [](outcome \in {"no_height", "error", "relay_failed", "save_failed"} => Running)
    /\ []((outcome \in {"no_height", "error"}) => pc = "poll")

(* A cycle failed on the malformed log, the loop started another one, which *)
(* failed the same way, and the loop still stands at its top.               *)
LoopSurvivalWitness ==
    /\ pc = "poll"
    /\ outcome = "error"
    /\ \E s \in Sigs : procCalls[s] >= 2 /\ relayCalls[s] = 0

(* C13. Shutdown only between cycles: the process never exits from within a *)
(* poll cycle; a cycle in progress runs to its cursor update first.         *)
ShutdownOnlyBetweenCycles ==
    [][pc = "batch" => pc' # "stopped"]_vars

(* C14. Range computation: a cycle that observes height H with the cursor   *)
(* at c requests nothing and keeps the cursor when c > H - D, and otherwise *)
(* requests exactly [c, H - D]; a cycle that completes leaves the cursor at *)
(* H - D + 1.                                                               *)
RangeComputation ==
    /\ [][(pc = "poll" /\ clock' # clock /\ latest_block' # <<>>) =>
             IF current_block > latest_block'[1] - reorg_confirmation_depth
             THEN fetch' = <<>> /\ current_block' = current_block /\ pc' = "poll"
             ELSE /\ fetch' = <<current_block,
                                latest_block'[1] - reorg_confirmation_depth>>
                  /\ current_block' = current_block]_vars
    /\ [][(Running /\ Running' /\ current_block' # current_block) =>
             /\ outcome' = "scanned"
             /\ fetch = <<current_block, latest_block[1] - reorg_confirmation_depth>>
             /\ current_block' = latest_block[1] - reorg_confirmation_depth + 1]_vars
    /\ [][outcome' = "scanned" =>
             current_block' = latest_block[1] - reorg_confirmation_depth + 1]_vars

(* Height MaxHeight - 1, cursor 0: range [0, H - D] scanned, cursor H - D + 1. *)
RangeComputationWitness ==
    /\ outcome = "scanned"
    /\ latest_block = <<MaxHeight - 1>>
    /\ fetch = <<0, MaxHeight - 1 - reorg_confirmation_depth>>
    /\ current_block = MaxHeight - reorg_confirmation_depth

(* C15. No cursor advance on a failed cycle: a cycle whose height query     *)
(* returns nothing, or whose log fetch raises, leaves the cursor and the    *)
(* ledger (memory and file) as they were, and the next cycle that fetches   *)
(* asks for a range that starts at the same block.                          *)
NoAdvanceOnFailedCycle ==
    /\ [][(/\ pc = "poll"
           /\ clock' # clock
           /\ \/ latest_block' = <<>>
              \/ fetch' # <<>> /\ pc' # "batch") =>
             /\ current_block' = current_block
             /\ processed_events' = processed_events
             /\ disk' = disk
             /\ retryFrom' = <<current_block>>]_vars
    /\ [](retryFrom # <<>> =>
             /\ current_block = retryFrom[1]
             /\ fetch # <<>> => fetch[1] = retryFrom[1])

(* A cycle failed before its batch, and a later cycle fetched: its range    *)
(* starts where the failed one stood.                                       *)
NoAdvanceOnFailedCycleWitness ==
    /\ retryFrom # <<>>
    /\ outcome = "fetched"
    /\ fetch # <<>>
    /\ fetch[1] = retryFrom[1]
    /\ Len(events) > 0

(* The block of the log(s) with signature s *)
BlockOf(s) ==
    (CHOOSE e \in {ChainLog[i] : i \in 1..Len(ChainLog)} : EventSignature(e) = s).blockNumber

BatchSigs == {EventSignature(events[i]) : i \in 1..Len(events)}

LedgerWriteOnce ==
    /\ [][(Running /\ Running') =>
             /\ \A s \in DOMAIN processed_events :
                   /\ s \in DOMAIN processed_events'
                   /\ processed_events'[s] = processed_events[s]
             /\ \A s \in DOMAIN processed_events' \ DOMAIN processed_events :
                   /\ lastRelay' # <<>>
                   /\ lastRelay'[2] = "True"
                   /\ relayOks'[s] = relayOks[s] + 1]_vars
    /\ [][(pc \in {"init", "stopped"} /\ Running') =>
             delivered \subseteq DOMAIN processed_events']_vars

(* C18. At most one successful delivery per event within a run: no event    *)
(* signature has had more than one relay_transaction call that returned     *)
(* success since the process started.                                       *)
AtMostOneDelivery ==
    \A s \in Sigs : relayOks[s] <= 1

(* The log of s came twice in one batch, its dispatch succeeded, the ledger *)
(* write failed, a later log of the batch raised, the range was fetched     *)
(* again, and s was still dispatched successfully only once.                *)
AtMostOneDeliveryWitness ==
    /\ Running
    /\ \E s \in Sigs :
          /\ relayOks[s] = 1
          /\ relayCalls[s] = 1
          /\ procCalls[s] >= 3
          /\ s \notin DOMAIN LoadState(disk)
          /\ \E i, j \in 1..Len(events) :
                i < j /\ j < idx /\ EventSignature(events[i]) = s
                /\ EventSignature(events[j]) = s
    /\ \E t \in Sigs : procCalls[t] >= 2 /\ relayCalls[t] = 0

(* C19. No scan gaps: the blocks from start_block up to the cursor are      *)
(* exactly the blocks of the ranges of completed cycles, and the cursor     *)
(* moves only at the end of a cycle whose fetch succeeded, whose range      *)
(* started at the cursor, and whose every event went through process_event  *)
(* without an exception; it moves to that range's upper bound + 1.          *)
NoScanGaps ==
    /\ [](Running => covered = start_block..(current_block - 1))
    /\ [][(Running /\ Running' /\ current_block' # current_block) =>
             /\ pc = "batch"
             /\ idx > Len(events)
             /\ fetch # <<>>
             /\ fetch[1] = current_block
             /\ current_block' = fetch[2] + 1
             /\ events = GetAllEntries(fetch[1], fetch[2])
             /\ \A s \in BatchSigs : procCalls[s] >= 1]_vars

(* Two cycles completed one after the other: the second range starts where  *)
(* the first ended, and together they cover start_block..cursor - 1.        *)
NoScanGapsWitness ==
    /\ outcome = "scanned"
    /\ fetch # <<>>
    /\ fetch[1] > start_block
    /\ current_block = fetch[2] + 1
    /\ covered = start_block..fetch[2]
    /\ Cardinality(covered) >= 3

(* C20. Scan progress: if from some time on neither the height query nor    *)
(* the log fetch fails, and the node keeps reporting heights whose          *)
(* confirmed range reaches block b, then the cursor eventually exceeds b;   *)
(* if b is not below start_block it is then covered by a completed scan and *)
(* each of its events has been passed to process_event (dispatched, or      *)
(* found already committed).                                                *)
ScanProgress ==
    \A b \in 0..(MaxHeight - reorg_confirmation_depth) :
        (/\ <>[](outcome \notin {"no_height", "error"})
         /\ []<>(/\ Running
                 /\ latest_block # <<>>
                 /\ TargetBlock(latest_block[1]) >= b))
        => <>(/\ Running
              /\ current_block > b
              /\ b >= start_block =>
                    /\ b \in covered
                    /\ \A s \in Sigs : BlockOf(s) = b => procCalls[s] >= 1)

(* Cycles completed one after the other from block 0, and the cursor has   *)
(* passed the blocks the node confirmed, every event of which was handled.  *)
ScanProgressWitness ==
    /\ outcome = "scanned"
    /\ start_block = 0
    /\ clock = MaxClock
    /\ current_block > TargetBlock(MinHeight + 1)
    /\ covered = 0..(current_block - 1)
    /\ \A s \in Sigs : BlockOf(s) \in covered => procCalls[s] >= 1
    /\ \E s \in Sigs : BlockOf(s) \in covered

====
